---- MODULE Spec2Model ----
(***************************************************************************)
(* Task dispatch and retry engine of the zest task service.                *)
(*                                                                         *)
(* Two dispatcher implementations are modelled:                            *)
(*   push  - src/src/taskManager.ts: TaskManager with a fixed pool of      *)
(*           worker threads, dispatch() / onWorkerDone().                  *)
(*   pull  - src/src/worker.ts (lines 41-278): TaskManager with            *)
(*           enqueue/dequeue/waiters and the Worker.start loop.            *)
(*                                                                         *)
(* Node.js runs one macrotask (HTTP request, timer callback, worker        *)
(* message) at a time and drains the microtask (promise job) queue         *)
(* before the next macrotask.  The pull implementation is built on         *)
(* promises, so its promise jobs are modelled explicitly in `micro`;       *)
(* a macrotask is enabled only when `micro` is empty.                      *)
(***************************************************************************)
EXTENDS Integers, Sequences, FiniteSets, TLC

\* ---- bounds of the model -------------------------------------------------
MaxTasks == 2          \* createTask calls explored when attempts are retried
MaxWorkersCap == 2     \* largest value of maxWorkers (CPU count) explored
MaxRetriesCap == 2     \* largest value of TASK_MAX_RETRIES explored
\* Configurations with TASK_MAX_RETRIES = 1 never retry and have far fewer
\* interleavings; they are explored with more tasks and a larger pool.
BurstTasks == 5        \* createTask calls explored when maxRetries = 1
BurstWorkers == 3      \* largest maxWorkers explored when maxRetries = 1
\* Runs that follow the log file writes one by one have many more
\* interleavings; they are explored with fewer tasks and, when attempts are
\* retried, a smaller pool.
LogTasks == 2          \* createTask calls explored when the log file is followed
LogRetryWorkers == 1   \* largest maxWorkers explored then when maxRetries > 1
\* A spawn may repeat a live worker's id in every configuration; a
\* single-attempt run in which one did is explored with fewer tasks.
MaxIdCollisions == 1   \* such spawns explored in one run
CollisionTasks == 3    \* createTask calls explored when maxRetries = 1 after such a spawn
MaxJitter == 2         \* milliseconds an attempt may measure beyond the sleep
MaxSnapshots == 2      \* GET /statistics responses explored between two dispatcher events
MaxWriteErrors == 1    \* fs.appendFile rejections explored in one run

\* ---- program constants ---------------------------------------------------
TASK_SIMULATED_DURATION == 500
\* `Date.now() - start` around the sleep: Date.now() has millisecond
\* resolution, so the sleep can measure one millisecond short; scheduling
\* (and, in the pull model, the awaited log write) adds to it.
Durations == (TASK_SIMULATED_DURATION - 1)..(TASK_SIMULATED_DURATION + MaxJitter)
ErrorPercentages == {0, 20, 100}   \* TASK_SIMULATED_ERROR_PERCENTAGE values explored

NoStats == << >>       \* no statistics response since the last dispatcher event
Stale == 0             \* a waiter whose worker has returned from start()
NoTask == 0

MaxOf(a, b) == IF a >= b THEN a ELSE b

TaskIds == 1..MaxOf(MaxTasks, BurstTasks)
\* worker identities; one more than the largest pool, ids never run out
WorkerIds == 1..(MaxOf(MaxWorkersCap, BurstWorkers) + MaxIdCollisions + 1)

VARIABLES
  impl,              \* "push" (taskManager.ts) or "pull" (worker.ts)
  maxWorkers,        \* Math.max(1, os.cpus().length)
  maxRetries,        \* config.TASK_MAX_RETRIES
  errorPercentage,   \* config.TASK_SIMULATED_ERROR_PERCENTAGE
  nTasks,            \* number of tasks created so far; task ids are 1..nTasks
  queue,             \* TaskManager.queue
  attempts,          \* Task.attempts
  completed,         \* Task.completed
  processing,        \* Task.processing (pull only)
  workers,           \* push: workers array; pull: the Worker objects held by
                     \* the workers map
  wid,               \* pull: the id string of each running Worker (0: not running)
  idCollisions,      \* pull: spawns so far whose id repeated a live worker's id
  busyWorkers,       \* push: busyWorkers set; pull: workers whose busy flag is set
  wtask,             \* task a worker is running an attempt of (message.id / local `task`)
  wattempt,          \* attempt number of that attempt (message.attempt / local `attempt`)
  waiters,           \* pull: TaskManager.waiters (resolve functions, by worker)
  micro,             \* pull: pending promise jobs, in FIFO order
  retryTimers,       \* pending retry setTimeout callbacks, in firing order
  processedTasks, retries, succeeded, failed,
  totalProcessingTimeMs, attemptsCount,
  logging,           \* whether the run follows the log file writes one by one
  logWriter,         \* the log file and its LogWriter: the lines appended, the
                     \* writes in progress, the writes settled, the lines that
                     \* reached the file, and whether the constructor's own
                     \* write of the service-start line is still in progress
  crashed,           \* push: worker threads that died with an 'error' event
  lastStats          \* bodies of the GET /statistics responses sent since the
                     \* last dispatcher event, oldest first

vars == << impl, maxWorkers, maxRetries, errorPercentage, nTasks, queue,
           attempts, completed, processing, workers, wid, idCollisions,
           busyWorkers, wtask,
           wattempt, waiters, micro, retryTimers, processedTasks, retries,
           succeeded, failed, totalProcessingTimeMs, attemptsCount, logging, logWriter,
           crashed, lastStats >>

\* everything the dispatcher owns: all variables but the statistics response
state == << impl, maxWorkers, maxRetries, errorPercentage, nTasks, queue,
            attempts, completed, processing, workers, wid, idCollisions,
           busyWorkers, wtask,
            wattempt, waiters, micro, retryTimers, processedTasks, retries,
            succeeded, failed, totalProcessingTimeMs, attemptsCount,
            logging, logWriter, crashed >>

state_butCrashed ==
  << impl, maxWorkers, maxRetries, errorPercentage, nTasks, queue, attempts,
     completed, processing, workers, wid, idCollisions, busyWorkers, wtask,
     wattempt, waiters,
     micro, retryTimers, processedTasks, retries, succeeded, failed,
     totalProcessingTimeMs, attemptsCount, logging, logWriter >>

\* tasks, queue, pool and counters: everything but the log sink
dispatcherState ==
  << nTasks, queue, attempts, completed, processing, workers, wid,
     idCollisions, busyWorkers,
     wtask, wattempt, waiters, micro, retryTimers, processedTasks, retries,
     succeeded, failed, totalProcessingTimeMs, attemptsCount, crashed >>

config == << impl, maxWorkers, maxRetries, errorPercentage, logging >>
pullOnly == << processing, waiters, micro, wid, idCollisions >>

\* ---- helpers -------------------------------------------------------------
MinOf(S) == CHOOSE x \in S : \A y \in S : x <= y

Count(seq, x) == Cardinality({i \in 1..Len(seq) : seq[i] = x})

\* Math.random() * 100 < errorPercentage, with Math.random() in [0, 1)
FailedOutcomes ==
  IF errorPercentage <= 0 THEN {FALSE}
  ELSE IF errorPercentage >= 100 THEN {TRUE}
  ELSE {TRUE, FALSE}

\* number of createTask calls explored in the current configuration
TaskCap ==
  IF logging THEN LogTasks
  ELSE IF maxRetries > 1 THEN MaxTasks
  ELSE IF idCollisions > 0 THEN CollisionTasks ELSE BurstTasks

\* `if (!task.completed)`: the guard in front of every finalization
notCompleted_unguarded(task) == TRUE

notCompleted(task) == ~completed[task]

\* `this.processedTasks += 1`, inside the finalization guard
processedAfter_everyReport(finalize) == processedTasks + 1

processedAfter(finalize) == IF finalize THEN processedTasks + 1 ELSE processedTasks

\* ---- initial state -------------------------------------------------------
\* push: the constructor runs startWorkers(), so the pool is full from the start.
\* pull: the workers map starts empty.
InitState ==
  /\ impl \in {"push", "pull"}
  /\ errorPercentage \in ErrorPercentages
  /\ logWriter = [lines |-> << >>, writing |-> {}, settled |-> {}, file |-> << >>,
                  start |-> logging]
  /\ nTasks = 0
  /\ queue = << >>
  /\ attempts = [t \in TaskIds |-> 0]
  /\ completed = [t \in TaskIds |-> FALSE]
  /\ processing = [t \in TaskIds |-> FALSE]
  /\ workers = IF impl = "push" THEN 1..maxWorkers ELSE {}
  /\ wid = [w \in WorkerIds |-> 0]
  /\ idCollisions = 0
  /\ busyWorkers = {}
  /\ wtask = [w \in WorkerIds |-> NoTask]
  /\ wattempt = [w \in WorkerIds |-> 0]
  /\ waiters = << >>
  /\ micro = << >>
  /\ retryTimers = << >>
  /\ processedTasks = 0
  /\ retries = 0
  /\ succeeded = 0
  /\ failed = 0
  /\ totalProcessingTimeMs = 0
  /\ attemptsCount = 0
  /\ crashed = {}
  /\ lastStats = NoStats

\* Runs that do not follow the log file: a write settles within the attempt
\* that issued it.
Init ==
  /\ logging = FALSE
  /\ maxRetries \in 1..MaxRetriesCap
  /\ maxWorkers \in 1..(IF maxRetries = 1 THEN BurstWorkers ELSE MaxWorkersCap)
  /\ InitState

\* Runs that follow every fs.appendFile on the log file.  The constructor
\* has called fs.appendFile(LOG_PATH, "--- Service start ...") without
\* awaiting it and outside the LogWriter: that write is in progress.
LogInit ==
  /\ logging = TRUE
  /\ maxRetries \in 1..MaxRetriesCap
  /\ maxWorkers \in 1..(IF maxRetries = 1 THEN MaxWorkersCap ELSE LogRetryWorkers)
  /\ InitState

\* ---- LogWriter (both files) ----------------------------------------------
\* A line is <<task, attempt>>; lines are numbered in the order of the append
\* calls.  writing holds the numbers whose fs.appendFile is in progress.
\* In file, StartLine stands for the service-start line.
StartLine == 0

chainSettled(lw) == \A i \in 1..Len(lw.lines) : i \in lw.settled

\* an append that calls fs.appendFile at once instead of chaining it
append_unchained(lw, line) ==
  IF ~logging THEN lw
  ELSE [lw EXCEPT !.lines = Append(@, line),
                  !.writing = @ \cup {Len(lw.lines) + 1}]

\* append(line): this.queue = this.queue.then(() => fs.appendFile(path, line))
\* .catch(...): the write starts once every earlier write has settled.
append(lw, line) ==
  IF ~logging THEN lw
  ELSE [lw EXCEPT !.lines = Append(@, line),
                  !.writing = IF chainSettled(lw) THEN @ \cup {Len(lw.lines) + 1}
                              ELSE @]

writeErrors(lw) ==
  Cardinality({l \in lw.settled : \A i \in 1..Len(lw.file) : lw.file[i] # l})

\* index of the line of worker w's current attempt
lineOf(w) ==
  CHOOSE i \in 1..Len(logWriter.lines) : logWriter.lines[i] = <<wtask[w], wattempt[w]>>
\* =========================================================================
\* Push model: src/src/taskManager.ts
\* =========================================================================

\* dispatch(): while the queue is non-empty and some worker is not busy, shift
\* the head, mark the first free worker busy, bump attempts, post the message.
RECURSIVE dispatch_noBusyMark(_)
dispatch_noBusyMark(s) ==
  IF Len(s.queue) = 0 THEN s
  ELSE LET free == {w \in workers : w \notin s.busyWorkers} IN
    IF free = {} THEN s
    ELSE LET worker == MinOf(free)
             task == Head(s.queue)
             attempt == s.attempts[task] + 1
         IN dispatch_noBusyMark([queue |-> Tail(s.queue),
                      busyWorkers |-> s.busyWorkers,
                      attempts |-> [s.attempts EXCEPT ![task] = attempt],
                      wtask |-> [s.wtask EXCEPT ![worker] = task],
                      wattempt |-> [s.wattempt EXCEPT ![worker] = attempt],
                      lw |-> append(s.lw, <<task, attempt>>)])

\* a dispatch that bumps the attempt counter of the head task before it
\* knows that a worker is free
RECURSIVE dispatch_speculative(_)
dispatch_speculative(s) ==
  IF Len(s.queue) = 0 THEN s
  ELSE LET free == {w \in workers : w \notin s.busyWorkers}
           task == Head(s.queue)
           attempt == s.attempts[task] + 1
       IN
    IF free = {} THEN [s EXCEPT !.attempts = [s.attempts EXCEPT ![task] = attempt]]
    ELSE LET worker == MinOf(free)
         IN dispatch_speculative([queue |-> Tail(s.queue),
                      busyWorkers |-> s.busyWorkers \cup {worker},
                      attempts |-> [s.attempts EXCEPT ![task] = attempt],
                      wtask |-> [s.wtask EXCEPT ![worker] = task],
                      wattempt |-> [s.wattempt EXCEPT ![worker] = attempt],
                      lw |-> append(s.lw, <<task, attempt>>)])

RECURSIVE dispatch(_)
dispatch(s) ==
  IF Len(s.queue) = 0 THEN s
  ELSE LET free == {w \in workers : w \notin s.busyWorkers} IN
    IF free = {} THEN s
    ELSE LET worker == MinOf(free)
             task == Head(s.queue)
             attempt == s.attempts[task] + 1
         IN dispatch([queue |-> Tail(s.queue),
                      busyWorkers |-> s.busyWorkers \cup {worker},
                      attempts |-> [s.attempts EXCEPT ![task] = attempt],
                      wtask |-> [s.wtask EXCEPT ![worker] = task],
                      wattempt |-> [s.wattempt EXCEPT ![worker] = attempt],
                      lw |-> append(s.lw, <<task, attempt>>)])

PushState(q, b) ==
  [queue |-> q, busyWorkers |-> b, attempts |-> attempts,
   wtask |-> wtask, wattempt |-> wattempt, lw |-> logWriter]

SetPushState(d) ==
  /\ queue' = d.queue
  /\ busyWorkers' = d.busyWorkers
  /\ attempts' = d.attempts
  /\ wtask' = d.wtask
  /\ wattempt' = d.wattempt
  /\ logWriter' = d.lw

\* createTask(message): register the task, push it, dispatch.
PushCreateTask ==
  /\ lastStats' = NoStats
  /\ UNCHANGED crashed
  /\ impl = "push"
  /\ nTasks < TaskCap
  /\ nTasks' = nTasks + 1
  /\ SetPushState(dispatch(PushState(Append(queue, nTasks + 1), busyWorkers)))
  /\ UNCHANGED << config, pullOnly, completed, workers, retryTimers,
                  processedTasks, retries, succeeded, failed,
                  totalProcessingTimeMs, attemptsCount >>

\* The worker thread finishes its attempt (worker.ts:24-39) and the manager
\* handles the result message in onWorkerDone(worker, result).
onWorkerDone(worker, ok, duration) ==
  LET id == wtask[worker]
      attempt == wattempt[worker]
      retry == ~ok /\ attempt < maxRetries
      finalize == notCompleted(id) /\ (ok \/ ~retry)
  IN
  /\ attemptsCount' = attemptsCount + 1
  /\ totalProcessingTimeMs' = totalProcessingTimeMs + duration
  /\ completed' = IF finalize THEN [completed EXCEPT ![id] = TRUE] ELSE completed
  /\ processedTasks' = processedAfter(finalize)
  /\ succeeded' = IF finalize /\ ok THEN succeeded + 1 ELSE succeeded
  /\ failed' = IF finalize /\ ~ok THEN failed + 1 ELSE failed
  /\ retries' = IF retry THEN retries + 1 ELSE retries
  /\ retryTimers' = IF retry THEN Append(retryTimers, id) ELSE retryTimers
  \* the result message is consumed; the worker is free for dispatch()
  /\ SetPushState(dispatch([PushState(queue, busyWorkers \ {worker})
                               EXCEPT !.wtask[worker] = NoTask,
                                      !.wattempt[worker] = 0]))

PushWorkerDone ==
  /\ lastStats' = NoStats
  /\ UNCHANGED crashed
  /\ impl = "push"
  /\ \E worker \in busyWorkers \ crashed : \E failedAttempt \in FailedOutcomes :
       \E duration \in Durations : onWorkerDone(worker, ~failedAttempt, duration)
  /\ nTasks' = nTasks
  /\ UNCHANGED << config, pullOnly, workers >>

\* w.on("error", e => console.error(...)): an uncaught error ends the worker
\* thread in the middle of an attempt; the handler only logs, and the dead
\* thread never posts the attempt's result.
PushWorkerError ==
  /\ lastStats' = NoStats
  /\ impl = "push"
  /\ \E worker \in busyWorkers \ crashed : crashed' = crashed \cup {worker}
  /\ UNCHANGED state_butCrashed

\* The retry setTimeout callback of onWorkerDone: push the task, dispatch.
\* All retry timers use the same delay, so they fire in creation order.
PushRetryTimer ==
  /\ lastStats' = NoStats
  /\ UNCHANGED crashed
  /\ impl = "push"
  /\ retryTimers # << >>
  /\ retryTimers' = Tail(retryTimers)
  /\ SetPushState(dispatch(PushState(Append(queue, Head(retryTimers)), busyWorkers)))
  /\ UNCHANGED << config, pullOnly, nTasks, completed, workers,
                  processedTasks, retries, succeeded, failed,
                  totalProcessingTimeMs, attemptsCount >>

\* =========================================================================
\* Pull model: src/src/worker.ts, lines 41-278
\* =========================================================================
\* Promise jobs of one hand-off, in the order they run:
\*   resolveDequeue  the waiter's promise settles the promise of dequeue()
\*   getTask         _getTaskForWorker resumes after `await this.dequeue()`
\*   race            Promise.race settles with the task
\*   process         start() resumes after `await Promise.race`, sets busy and
\*                   enters _processTaskByWorker up to its first await
Job(k, w, t) == [k |-> k, w |-> w, t |-> t]

PullState ==
  [queue |-> queue, waiters |-> waiters, workers |-> workers, micro |-> micro,
   wid |-> wid, idCollisions |-> idCollisions]

SetPullState(s) ==
  /\ queue' = s.queue
  /\ waiters' = s.waiters
  /\ workers' = s.workers
  /\ micro' = s.micro
  /\ wid' = s.wid
  /\ idCollisions' = s.idCollisions

\* dequeue() as called from _getTaskForWorker at the head of the Worker.start
\* loop: shift the head of the queue, or register a waiter.
dequeue(id, s) ==
  IF Len(s.queue) > 0
  THEN [s EXCEPT !.queue = Tail(@),
                 !.micro = Append(@, Job("getTask", id, Head(s.queue)))]
  ELSE [s EXCEPT !.waiters = Append(@, id)]

\* maybeSpawnWorker(): spawn one worker when the queue is longer than the
\* number of idle workers and the pool is below maxWorkers; the new worker's
\* start() runs synchronously up to its first await.
idleCount(s) ==
  LET hot == Cardinality({w \in s.workers : w \in busyWorkers})
  IN Cardinality(s.workers) - hot

shouldSpawn_uncapped(s) == Len(s.queue) > idleCount(s)

shouldSpawn(s) ==
  Len(s.queue) > idleCount(s) /\ Cardinality(s.workers) < maxWorkers

\* Worker objects that are running their start() loop
Running(s) == {w \in WorkerIds : s.wid[w] # 0}

\* The id is String(Math.random()).slice(2, 8) and is not checked against the
\* map: `id` is 0 for a draw that no live worker has (all such draws behave
\* alike) or the id of a live worker.  workers.set(id, w) then replaces the
\* map's entry for that id and the worker that held it runs on unregistered.
IdDraws(created) ==
  {0} \cup (IF /\ idCollisions < MaxIdCollisions
               /\ created <= CollisionTasks
            THEN {wid[w] : w \in Running(PullState)}
            ELSE {})

maybeSpawnWorker(s, id) ==
  IF shouldSpawn(s)
     THEN LET used == Running(s) \cup {s.wid[w] : w \in Running(s)}
              w == MinOf(WorkerIds \ used)
              name == IF id = 0 THEN w ELSE id
              replaced == {v \in s.workers : s.wid[v] = name}
          IN dequeue(w, [s EXCEPT !.workers = (@ \ replaced) \cup {w},
                                  !.wid[w] = name,
                                  !.idCollisions = IF id = 0 THEN @ ELSE @ + 1])
     ELSE s

\* enqueue(task): ignored for a processing or completed task; otherwise push
\* the task and resolve the oldest waiter with it.
enqueue(s, task) ==
  IF processing[task] \/ completed[task] THEN s
  ELSE LET s1 == [s EXCEPT !.queue = Append(@, task)]
       IN IF Len(s1.waiters) = 0 THEN s1
          ELSE [s1 EXCEPT !.waiters = Tail(@),
                          !.micro = Append(@, Job("resolveDequeue", Head(s1.waiters), task))]

\* createTask(message): enqueue the new task, maybeSpawnWorker.
PullCreateTask ==
  /\ lastStats' = NoStats
  /\ UNCHANGED crashed
  /\ impl = "pull"
  /\ micro = << >>
  /\ nTasks < TaskCap
  /\ nTasks' = nTasks + 1
  /\ \E id \in IdDraws(nTasks + 1) :
       SetPullState(maybeSpawnWorker(enqueue(PullState, nTasks + 1), id))
  /\ UNCHANGED << config, attempts, completed, processing, busyWorkers, wtask,
                  wattempt, retryTimers, processedTasks, retries, succeeded,
                  failed, totalProcessingTimeMs, attemptsCount, logWriter >>

\* The retry setTimeout callback of _processTaskByWorker: enqueue(task),
\* maybeSpawnWorker().  Same delay for all, so they fire in creation order.
PullRetryTimer ==
  /\ lastStats' = NoStats
  /\ UNCHANGED crashed
  /\ impl = "pull"
  /\ micro = << >>
  /\ retryTimers # << >>
  /\ retryTimers' = Tail(retryTimers)
  /\ \E id \in IdDraws(nTasks) :
       SetPullState(maybeSpawnWorker(enqueue(PullState, Head(retryTimers)), id))
  /\ UNCHANGED << config, nTasks, attempts, completed, processing, busyWorkers,
                  wtask, wattempt, processedTasks, retries, succeeded,
                  failed, totalProcessingTimeMs, attemptsCount, logWriter >>

\* One promise job.
RunJob(j, rest, id) ==
  CASE j.k = "resolveDequeue" ->
         /\ micro' = Append(rest, Job("getTask", j.w, j.t))
         /\ UNCHANGED << queue, waiters, workers, wid, idCollisions, processing,
                         busyWorkers, attempts, wtask, wattempt, retries,
                         logWriter >>
    [] j.k = "getTask" ->
         \* _getTaskForWorker: maybeSpawnWorker(); task.processing = true; return task
         LET s == maybeSpawnWorker([PullState EXCEPT !.micro = rest], id)
         IN /\ queue' = s.queue
            /\ waiters' = s.waiters
            /\ workers' = s.workers
            /\ wid' = s.wid
            /\ idCollisions' = s.idCollisions
            /\ micro' = Append(s.micro, Job("race", j.w, j.t))
            /\ processing' = [processing EXCEPT ![j.t] = TRUE]
            /\ UNCHANGED << busyWorkers, attempts, wtask, wattempt, retries,
                            logWriter >>
    [] j.k = "race" ->
         \* a worker that already returned on idle-timeout no longer awaits the race
         /\ micro' = IF j.w = Stale THEN rest ELSE Append(rest, Job("process", j.w, j.t))
         /\ UNCHANGED << queue, waiters, workers, wid, idCollisions, processing,
                         busyWorkers, attempts, wtask, wattempt, retries,
                         logWriter >>
    [] j.k = "process" ->
         \* start(): this.busy = true; _processTaskByWorker: task.attempts += 1;
         \* if (task.attempts > 1) this.retries += 1; const attempt = task.attempts;
         \* then await the log append
         /\ micro' = rest
         /\ busyWorkers' = busyWorkers \cup {j.w}
         /\ wtask' = [wtask EXCEPT ![j.w] = j.t]
         /\ attempts' = [attempts EXCEPT ![j.t] = @ + 1]
         /\ wattempt' = [wattempt EXCEPT ![j.w] = attempts[j.t] + 1]
         /\ retries' = IF attempts[j.t] + 1 > 1 THEN retries + 1 ELSE retries
         /\ logWriter' = append(logWriter, <<j.t, attempts[j.t] + 1>>)
         /\ UNCHANGED << queue, waiters, workers, wid, idCollisions, processing >>

PullMicrotask ==
  /\ lastStats' = NoStats
  /\ UNCHANGED crashed
  /\ impl = "pull"
  /\ micro # << >>
  /\ \E id \in IdDraws(nTasks) : RunJob(Head(micro), Tail(micro), id)
  /\ UNCHANGED << config, nTasks, completed, retryTimers,
                  processedTasks, succeeded, failed, totalProcessingTimeMs,
                  attemptsCount >>

\* `await this.logWriter.append(...)` is over (the line's write has settled)
\* and the sleep of _processTaskByWorker ends: the rest of _processTaskByWorker,
\* then the finally block of start() and the head of its next loop iteration.
processTaskDone(w, failedAttempt, duration) ==
  LET task == wtask[w]
      retry == failedAttempt /\ attempts[task] < maxRetries
      finalize == ~retry /\ notCompleted(task)
  IN
  /\ totalProcessingTimeMs' = totalProcessingTimeMs + duration
  /\ attemptsCount' = attemptsCount + 1
  /\ succeeded' = IF finalize /\ ~failedAttempt THEN succeeded + 1 ELSE succeeded
  /\ failed' = IF finalize /\ failedAttempt THEN failed + 1 ELSE failed
  /\ processedTasks' = processedAfter(finalize)
  /\ completed' = IF retry THEN completed ELSE [completed EXCEPT ![task] = TRUE]
  /\ retryTimers' = IF retry THEN Append(retryTimers, task) ELSE retryTimers
  \* finally { task.processing = false; this.busy = false }
  /\ processing' = [processing EXCEPT ![task] = FALSE]
  /\ busyWorkers' = busyWorkers \ {w}
  /\ wtask' = [wtask EXCEPT ![w] = NoTask]
  /\ wattempt' = [wattempt EXCEPT ![w] = 0]
  \* next iteration: _getTaskForWorker() -> dequeue()
  /\ SetPullState(dequeue(w, PullState))

PullAttemptDone ==
  /\ lastStats' = NoStats
  /\ UNCHANGED crashed
  /\ impl = "pull"
  /\ micro = << >>
  /\ \E w \in busyWorkers : \E failedAttempt \in FailedOutcomes :
       /\ logging => lineOf(w) \in logWriter.settled
       /\ \E duration \in Durations : processTaskDone(w, failedAttempt, duration)
  /\ UNCHANGED << config, nTasks, attempts, retries, logWriter >>

\* Idle timers are armed when a worker starts waiting and all use
\* WORKER_TIMEOUT, so the worker that has waited longest times out first.
\* Its start() returns and .finally runs workers.delete(id), which removes
\* whichever worker the map holds under that id; its resolve function stays
\* in waiters.
LiveWaiters == {i \in 1..Len(waiters) : waiters[i] # Stale}

PullIdleTimeout ==
  /\ lastStats' = NoStats
  /\ UNCHANGED crashed
  /\ impl = "pull"
  /\ micro = << >>
  /\ LiveWaiters # {}
  /\ LET i == MinOf(LiveWaiters) IN
       /\ workers' = {v \in workers : wid[v] # wid[waiters[i]]}
       /\ wid' = [wid EXCEPT ![waiters[i]] = 0]
       /\ waiters' = [waiters EXCEPT ![i] = Stale]
  /\ UNCHANGED << config, nTasks, queue, attempts, completed, processing,
                  idCollisions,
                  busyWorkers, wtask, wattempt, micro, retryTimers,
                  processedTasks, retries, succeeded, failed,
                  totalProcessingTimeMs, attemptsCount, logWriter >>

\* ---- log file ------------------------------------------------------------
\* One fs.appendFile settles, fulfilled (ok) or rejected; a rejection is
\* caught and logged; either way the next chained write starts.
LogWriteDone ==
  /\ lastStats' = NoStats
  /\ logging
  /\ micro = << >>
  /\ \E l \in logWriter.writing : \E ok \in BOOLEAN :
       /\ ok \/ writeErrors(logWriter) < MaxWriteErrors
       /\ LET done == [logWriter EXCEPT !.settled = @ \cup {l},
                                        !.writing = @ \ {l},
                                        !.file = IF ok THEN Append(@, l) ELSE @]
              started == done.writing \cup done.settled
              next == {i \in 1..Len(done.lines) : i \notin started}
          IN logWriter' = IF next # {} /\ \A i \in 1..(MinOf(next) - 1) : i \in done.settled
                          THEN [done EXCEPT !.writing = @ \cup {MinOf(next)}]
                          ELSE done
  /\ UNCHANGED << config, dispatcherState >>

\* The constructor's fs.appendFile of the service-start line settles; a
\* rejection (fs.mkdir is not awaited either) is swallowed by .catch(() => {}).
ServiceStartWriteDone ==
  /\ lastStats' = NoStats
  /\ logging
  /\ micro = << >>
  /\ logWriter.start
  /\ \E ok \in BOOLEAN :
       logWriter' = [logWriter EXCEPT !.start = FALSE,
                                      !.file = IF ok THEN Append(@, StartLine) ELSE @]
  /\ UNCHANGED << config, dispatcherState >>

\* ---- statistics (both implementations) --------------------------------
RECURSIVE Gcd(_, _)
Gcd(a, b) == IF b = 0 THEN a ELSE Gcd(b, a % b)

\* a / b as a fraction in lowest terms
Ratio(a, b) == [num |-> a \div Gcd(a, b), den |-> b \div Gcd(a, b)]

\* Math.round(x) for x = a / b >= 0
Round(a, b) == (2 * a + b) \div (2 * b)

\* getStatistics(): the snapshot; the last field is busyWorkers in
\* taskManager.ts and hotWorkers in worker.ts
getStatistics ==
  LET avgNum == IF attemptsCount > 0 THEN totalProcessingTimeMs ELSE 0
      avgDen == IF attemptsCount > 0 THEN attemptsCount ELSE 1
      rate == IF processedTasks # 0 THEN Ratio(succeeded, processedTasks)
              ELSE Ratio(0, 1)
      hot == Cardinality(workers \cap busyWorkers)
  IN IF impl = "push"
     THEN [processedTasks |-> processedTasks,
           retries |-> retries,
           succeeded |-> succeeded,
           failed |-> failed,
           successRate |-> rate,
           averageProcessingTimeMsPerAttempt |-> Round(avgNum, avgDen),
           queueLength |-> Len(queue),
           idleWorkers |-> Cardinality(workers) - Cardinality(busyWorkers),
           busyWorkers |-> Cardinality(busyWorkers)]
     ELSE [processedTasks |-> processedTasks,
           retries |-> retries,
           succeeded |-> succeeded,
           failed |-> failed,
           successRate |-> rate,
           averageProcessingTimeMsPerAttempt |-> Round(avgNum, avgDen),
           queueLength |-> Len(queue),
           idleWorkers |-> Cardinality(workers) - hot,
           hotWorkers |-> hot]

\* a getStatistics that resets the running average when it is read
GetStatistics_resetOnRead ==
  /\ micro = << >>
  /\ Len(lastStats) < MaxSnapshots
  /\ lastStats' = Append(lastStats, getStatistics)
  /\ totalProcessingTimeMs' = 0
  /\ attemptsCount' = 0
  /\ UNCHANGED << impl, maxWorkers, maxRetries, errorPercentage, nTasks, queue,
                  attempts, completed, processing, workers, wid, idCollisions,
           busyWorkers, wtask,
                  wattempt, waiters, micro, retryTimers, processedTasks, retries,
                  succeeded, failed, crashed, logging, logWriter >>

\* GET /statistics: res.json(manager.getStatistics())
GetStatistics ==
  /\ micro = << >>
  /\ Len(lastStats) < MaxSnapshots
  /\ lastStats' = Append(lastStats, getStatistics)
  /\ UNCHANGED state

Next ==
  \/ GetStatistics
  \/ PushCreateTask
  \/ PushWorkerDone
  \/ PushRetryTimer
  \/ PullCreateTask
  \/ PullRetryTimer
  \/ PullMicrotask
  \/ PullAttemptDone
  \/ PullIdleTimeout

Spec == Init /\ [][Next]_vars

\* Started attempts finish, armed timers fire and promise jobs run; clients
\* are not obliged to submit tasks.
FairSpec ==
  /\ Spec
  /\ WF_vars(PushWorkerDone)
  /\ WF_vars(PushRetryTimer)
  /\ WF_vars(PullMicrotask)
  /\ WF_vars(PullAttemptDone)
  /\ WF_vars(PullRetryTimer)
  /\ WF_vars(PullIdleTimeout)

\* The same program with the log file writes followed one by one.
LogNext ==
  \/ Next
  \/ ServiceStartWriteDone
  \/ LogWriteDone

LogSpec == LogInit /\ [][LogNext]_vars

\* The same program when worker threads may die during an attempt.
FaultNext ==
  \/ Next
  \/ PushWorkerError

FaultSpec == Init /\ [][FaultNext]_vars

FairFaultSpec ==
  /\ FaultSpec
  /\ WF_vars(PushWorkerDone)
  /\ WF_vars(PushRetryTimer)
  /\ WF_vars(PullMicrotask)
  /\ WF_vars(PullAttemptDone)
  /\ WF_vars(PullRetryTimer)
  /\ WF_vars(PullIdleTimeout)

\* =========================================================================
\* Properties
\* =========================================================================
Created == 1..nTasks

\* workers currently running an attempt of task t
InFlight(t) == {w \in busyWorkers : wtask[w] = t}

InQueue(t) == Count(queue, t) > 0

\* places that hold a reference to task t between dispatcher events
Holders(t) == Count(queue, t) + Cardinality(InFlight(t)) + Count(retryTimers, t)

AllFinalized == nTasks >= 1 /\ \A t \in Created : completed[t]

\* C1: no task is being processed by two workers at the same time.
C1_NoDoubleProcessing ==
  \A t \in Created : Cardinality(InFlight(t)) <= 1

\* C2: attempts never exceeds maxRetries, and a finalized task has made
\* between 1 and maxRetries attempts.
C2_AttemptsBounded ==
  \A t \in Created :
    /\ attempts[t] <= maxRetries
    /\ completed[t] => attempts[t] \in 1..maxRetries

\* C3: finalization is idempotent: completed goes from false to true at most
\* once and never back; processedTasks and exactly one of succeeded / failed
\* are incremented by one on that transition and on no other step.
NewlyCompleted == {t \in TaskIds : ~completed[t] /\ completed'[t]}

C3_Step ==
  /\ \A t \in TaskIds : completed[t] => completed'[t]
  /\ Cardinality(NewlyCompleted) <= 1
  /\ processedTasks' = processedTasks + Cardinality(NewlyCompleted)
  /\ succeeded' >= succeeded
  /\ failed' >= failed
  /\ succeeded' + failed' = succeeded + failed + Cardinality(NewlyCompleted)

C3_IdempotentFinalization == [][C3_Step]_vars

\* With maxRetries = 1 every report is a final one, so more reports than
\* finalized tasks means a report arrived for an already completed task.
C3_Witness ==
  /\ maxRetries = 1
  /\ micro = << >>
  /\ attemptsCount > processedTasks
  /\ processedTasks >= 1

\* C4: FIFO dispatch: when a fresh task b gets its first hand-off while an
\* earlier-created fresh task a is still waiting in the queue, a is handed
\* off no later than b.
C4_Step ==
  \A a \in Created : \A b \in TaskIds :
    (a < b /\ attempts[a] = 0 /\ InQueue(a) /\ attempts[b] = 0 /\ attempts'[b] >= 1)
       => attempts'[a] >= 1

C4_FifoDispatch == [][C4_Step]_vars

\* C5: between dispatcher events every task that is not completed is held in
\* exactly one place (queue, one worker, or one retry timer); the queue holds
\* no task twice and no task that is in flight.
C5_ExactlyOneHolder ==
  micro = << >> =>
    \A t \in Created :
      /\ ~completed[t] => Holders(t) = 1
      /\ Count(queue, t) <= 1
      /\ InFlight(t) # {} => ~InQueue(t)

\* C6: with errorPercentage = 100 every task makes exactly maxRetries attempts
\* and is finalized as failed; once all are finalized processedTasks = N,
\* failed = N, succeeded = 0 and retries = N * (maxRetries - 1).
C6_AllFail ==
  errorPercentage = 100 =>
    /\ succeeded = 0
    /\ \A t \in Created : attempts[t] <= maxRetries
    /\ AllFinalized =>
         /\ processedTasks = nTasks
         /\ failed = nTasks
         /\ retries = nTasks * (maxRetries - 1)
         /\ \A t \in Created : attempts[t] = maxRetries

\* C7: with errorPercentage = 0 every task is attempted exactly once and
\* succeeds; retries stays 0; once all are finalized processedTasks = N,
\* succeeded = N, failed = 0.
C7_AllSucceed ==
  errorPercentage = 0 =>
    /\ retries = 0
    /\ failed = 0
    /\ \A t \in Created : attempts[t] <= 1
    /\ AllFinalized =>
         /\ processedTasks = nTasks
         /\ succeeded = nTasks
         /\ \A t \in Created : attempts[t] = 1

\* C8: the pool never holds more than maxWorkers workers: neither the
\* workers array / map nor, in the pull model, the Worker objects that are
\* running their start() loop and taking tasks.
C8_PoolBound ==
  /\ Cardinality(workers) <= maxWorkers
  /\ Cardinality({w \in WorkerIds : wid[w] # 0}) <= maxWorkers

C8_Witness ==
  /\ impl = "pull"
  /\ nTasks > maxWorkers
  /\ Len(queue) > 0
  /\ Cardinality(workers) = maxWorkers

\* C9: idle teardown: a worker that sits idle in the pool is eventually
\* handed a task or retired and removed from the pool, in both
\* implementations; a worker that is busy with an attempt is never removed.
Alive(w) == IF impl = "push" THEN w \in workers ELSE wid[w] # 0

Idle(w) == Alive(w) /\ w \notin busyWorkers

C9_IdleTeardown ==
  /\ \A w \in WorkerIds : Idle(w) ~> ~Idle(w)
  /\ [][\A w \in busyWorkers : Alive(w) => Alive(w)']_vars

\* C10: after K > maxWorkers createTask calls from the empty system and before
\* any attempt completes, busyWorkers = maxWorkers and queueLength =
\* K - maxWorkers; never more than maxWorkers tasks are in flight.
Burst == micro = << >> /\ attemptsCount = 0 /\ nTasks > maxWorkers

C10_BurstBounded ==
  /\ Cardinality({t \in Created : InFlight(t) # {}}) <= maxWorkers
  /\ Cardinality(busyWorkers) <= maxWorkers
  /\ Burst => /\ Cardinality(busyWorkers) = maxWorkers
              /\ Len(queue) = nTasks - maxWorkers

C10_Witness == Burst /\ maxWorkers >= 2 /\ Len(queue) >= 2
\* C11: processedTasks equals succeeded + failed in every reachable state.
C11_ProcessedIsSum == processedTasks = succeeded + failed

C11_Witness ==
  /\ succeeded >= 1
  /\ failed >= 1
  /\ attemptsCount > processedTasks

IsSuffix(s1, s2) ==
  /\ Len(s1) <= Len(s2)
  /\ \A i \in 1..Len(s1) : s1[i] = s2[Len(s2) - Len(s1) + i]

\* C12: getStatistics is a pure read: a step that sends a statistics response
\* leaves the queue, the task records, the pool, the busy set and all counters
\* unchanged, so all the responses sent with no dispatcher event between them
\* are identical, and equal to what getStatistics returns now.
C12_Step == Len(lastStats') > Len(lastStats) => UNCHANGED state

C12_Identical == \A i, j \in DOMAIN lastStats : lastStats[i] = lastStats[j]

C12_Current == \A i \in DOMAIN lastStats : lastStats[i] = getStatistics

C13_EventualFinalization ==
  \A t \in TaskIds : (t \in Created) ~> completed[t]

\* C14: work conservation: once a dispatcher event has run to completion the
\* queue is never non-empty while a worker is idle (push) or waiting in
\* dequeue (pull).
AvailableWorker ==
  IF impl = "push" THEN workers \ busyWorkers # {} ELSE LiveWaiters # {}

C14_WorkConservation ==
  micro = << >> => ~(Len(queue) > 0 /\ AvailableWorker)

\* C15: attempt numbering: a task's attempts counter moves only by one, only
\* on a step in which a worker starts an attempt of that task, and that
\* attempt carries the new value as its number; every attempt a worker starts
\* bumps the counter of its task (so the numbers are 1, 2, 3, ... without
\* gaps or repeats).
Started(w) ==
  /\ w \in busyWorkers'
  /\ w \notin busyWorkers \/ wtask'[w] # wtask[w] \/ wattempt'[w] # wattempt[w]

C15_Step ==
  /\ \A t \in TaskIds :
       /\ attempts'[t] \in {attempts[t], attempts[t] + 1}
       /\ attempts'[t] = attempts[t] + 1 =>
            Cardinality({w \in WorkerIds : Started(w) /\ wtask'[w] = t}) = 1
  /\ \A w \in WorkerIds :
       Started(w) => /\ attempts'[wtask'[w]] = attempts[wtask'[w]] + 1
                     /\ wattempt'[w] = attempts'[wtask'[w]]

C15_AttemptNumbering == [][C15_Step]_vars

\* a fresh task waits in the queue because every worker is busy, one of them
\* with a second attempt
C15_Witness ==
  /\ Len(queue) > 0
  /\ attempts[Head(queue)] = 0
  /\ Cardinality(busyWorkers) = maxWorkers
  /\ \E w \in busyWorkers : wattempt[w] = 2 /\ attempts[wtask[w]] = 2

\* C16: retry re-insertion: while a task waits on its retry timer it is
\* neither in the queue nor in flight; when the timer fires the task is
\* appended at the tail of the queue, behind everything queued at that
\* moment (tasks are then taken from the head only).
C16_DuringDelay ==
  \A t \in Created :
    Count(retryTimers, t) > 0 => ~InQueue(t) /\ InFlight(t) = {}

C16_TimerStep ==
  Len(retryTimers') < Len(retryTimers)
    => IsSuffix(queue', Append(queue, Head(retryTimers)))

C16_RetryReinsertion == []C16_DuringDelay /\ [][C16_TimerStep]_vars

\* C17: retries counts the failed attempts recorded below maxRetries: it goes
\* up by one exactly on the step that records such a failure (the step that
\* arms the retry timer) and on no other step.
C17_Step ==
  retries' = IF Len(retryTimers') > Len(retryTimers) THEN retries + 1 ELSE retries

C17_RetriesCounter == [][C17_Step]_vars

\* C18: worker fault recovery: a worker that suffers an unexpected error
\* during an attempt is eventually no longer marked busy, and the task it held
\* is not left in flight: it is eventually completed or back in the queue or
\* waiting on its retry timer.
Released(t) ==
  \/ completed[t]
  \/ InQueue(t)
  \/ \E i \in 1..Len(retryTimers) : retryTimers[i] = t

C18_FaultRecovery ==
  \A w \in WorkerIds : \A t \in TaskIds :
    (w \in crashed /\ w \in busyWorkers /\ wtask[w] = t)
      ~> (w \notin busyWorkers /\ Released(t))

\* C19: log sink serialization: at most one write on the log file is in
\* progress at a time; the LogWriter's writes are started and its lines reach
\* the file in the order of the append calls; exactly one line is appended
\* per attempt hand-off; while appended lines are outstanding a write is in
\* progress, also after a failed write; and a write that settles, failed or
\* not, changes no task, queue or counter state.
Increasing(seq) == \A i, j \in 1..Len(seq) : i < j => seq[i] < seq[j]

RECURSIVE SumAttempts(_)
SumAttempts(T) ==
  IF T = {} THEN 0
  ELSE LET t == CHOOSE x \in T : TRUE IN attempts[t] + SumAttempts(T \ {t})

IsTaskLine(l) == l # StartLine

WritesInProgress ==
  Cardinality(logWriter.writing) + (IF logWriter.start THEN 1 ELSE 0)

C19_OneWrite == WritesInProgress <= 1

\* the part that concerns the LogWriter's promise chain alone
C19_Serial ==
  LET lw == logWriter
      n == Len(lw.lines)
      started == lw.writing \cup lw.settled
      taskLines == SelectSeq(lw.file, IsTaskLine)
  IN /\ Cardinality(lw.writing) <= 1
     /\ lw.writing \cap lw.settled = {}
     /\ started \subseteq 1..n
     /\ \A i \in started : \A j \in 1..(i - 1) : j \in lw.settled
     /\ Increasing(taskLines)
     /\ \A i \in 1..Len(taskLines) : taskLines[i] \in lw.settled
     /\ (\E i \in 1..n : i \notin lw.settled) => lw.writing # {}

C19_OneLinePerHandOff ==
  logging =>
    /\ Len(logWriter.lines) = SumAttempts(TaskIds)
    /\ \A t \in TaskIds : \A a \in 1..attempts[t] :
         Cardinality({i \in 1..Len(logWriter.lines) :
                        logWriter.lines[i] = <<t, a>>}) = 1

C19_WriteStep ==
  (logWriter'.settled # logWriter.settled \/ logWriter'.start # logWriter.start)
    => UNCHANGED dispatcherState

C19_LogSerialization ==
  /\ [](C19_OneWrite /\ C19_Serial /\ C19_OneLinePerHandOff)
  /\ [][C19_WriteStep]_vars

\* a failed write was followed by a later line reaching the file while a third
\* line waits behind the write in progress
C19_Witness ==
  LET lw == logWriter IN
  /\ \E i \in lw.settled : \E k \in 1..Len(lw.file) :
       /\ \A m \in 1..Len(lw.file) : lw.file[m] # i
       /\ lw.file[k] > i
  /\ lw.writing # {}
  /\ \E i \in 1..Len(lw.lines) : i \notin lw.writing /\ i \notin lw.settled

\* C20: a completed task is never worked on again: it is not in the queue,
\* not in flight, and its attempts counter no longer changes.
C20_Done ==
  \A t \in Created : completed[t] => ~InQueue(t) /\ InFlight(t) = {}

C20_Step ==
  \A t \in Created : completed[t] => attempts'[t] = attempts[t]

C20_CompletedIsFinal == []C20_Done /\ [][C20_Step]_vars
====
